---- MODULE Spec2Model ----
(***************************************************************************)
(* A state-machine model of preprocessing.py: the module globals (tuning   *)
(* parameters), the loader, the thresholder, the circle detector's         *)
(* masking, the bounding-box normalizer, the interactive experiments with  *)
(* their slider callbacks, and the batch driver of the __main__ block.     *)
(*                                                                         *)
(* Images are records [h, w, ch, px, ops]:                                 *)
(*   h, w  the shape (rows, columns), ch the number of channels,           *)
(*   px    the pixel grid px[y][x], 0-based like numpy,                    *)
(*   ops   the library transformations applied on top of px whose pixel    *)
(*         result the model does not compute (resampling, equalization,    *)
(*         circle painting, morphology, ...).  An image with ops = <<>>    *)
(*         is held pixel for pixel.                                        *)
(* Library calls whose result is an algorithm's output (HoughCircles, the  *)
(* blob detector) are nondeterministic choices over small result sets.     *)
(***************************************************************************)
EXTENDS Integers, Sequences, FiniteSets, TLC

(* ------------------------------ bounds --------------------------------- *)
\* Largest height and width of a decoded file / of an image argument.
MaxH == 2
MaxW == 3
\* Number of entries os.listdir returns for the data directory.
NFiles == 2

(* ------------------ initial values of the module globals --------------- *)
STD_RES_INIT == 512
THRESH_INIT == 30
LOW_THRESH_INIT == 0
MAX_THRESH_INIT == 255
KERNEL_INIT == 3
DP_INIT == 1
MD_INIT == STD_RES_INIT
P1_INIT == 140
P2_INIT == 30
\* int(STD_RES * 0.4)
MIN_R_INIT == (STD_RES_INIT * 4) \div 10
MAX_R_INIT == STD_RES_INIT

\* The maxval argument of cv.threshold (lines 112, 215, 225).
MAXVAL == 255

VARIABLES
    \* module globals (lines 63-81)
    STD_RES, THRESH, LOW_THRESH, MAX_THRESH, KERNEL, DP, MD, P1, P2, MIN_R, MAX_R,
    \* control: the function being run, and the position in it
    fn, pc,
    \* the batch driver: index of the next directory entry, entries attempted
    idx, attempted,
    \* the exception propagating out of the running function ("none" if none)
    exc,
    \* arguments and locals of the running function
    path, img, img_thresh, rect, max_wh, half_dw, half_dh, img_expand,
    img_resize, circles, keypoints, edges,
    \* the return value of the function called directly
    ret,
    \* the GUI windows: window name -> the variable whose image imshow last drew
    windows,
    \* the image argument as it was when a function taking an image was called
    arg,
    \* the thresholder applied twice: the cutoff, the first and the second result
    cutoff, once, twice

globals == <<STD_RES, THRESH, LOW_THRESH, MAX_THRESH, KERNEL, DP, MD, P1, P2, MIN_R, MAX_R>>
control == <<fn, pc, idx, attempted, exc>>
locals == <<path, img, img_thresh, rect, max_wh, half_dw, half_dh, img_expand,
            img_resize, circles, keypoints, edges>>
harness == <<arg, cutoff, once, twice>>
vars == <<globals, control, locals, ret, windows, harness>>

(* ------------------------------ values --------------------------------- *)
\* Python's None.
None == [none |-> TRUE]

\* Pixel intensities the decoded files are drawn from: the cutoff itself and
\* its successor (the two sides of the comparison of cv.threshold).
Levels == {THRESH_INIT, THRESH_INIT + 1}

\* Intensities of the thresholder's harness: both ends of the 8-bit range and
\* the neighbourhood of the configured cutoff.
ProbeLevels == {0, 1, THRESH_INIT - 1, THRESH_INIT, THRESH_INIT + 1, 254, 255}

Grid(h, w, levels) == [0..(h - 1) -> [0..(w - 1) -> levels]]

Grids(levels) == UNION {Grid(h, w, levels) : <<h, w>> \in (1..MaxH) \X (1..MaxW)}

Height(px) == Cardinality(DOMAIN px)
Width(px) == IF DOMAIN px = {} THEN 0 ELSE Cardinality(DOMAIN px[0])

\* A single-channel image held pixel for pixel.
Gray(px) == [h |-> Height(px), w |-> Width(px), ch |-> 1, px |-> px, ops |-> <<>>]

\* The grayscale images handed to the functions that take an image argument.
Images == {Gray(px) : px \in Grids(Levels)}

\* The files of the data directory: undecodable (missing, corrupt, unsupported),
\* or a raster with 1 or 3 channels whose grayscale decoding is px.
Files == {[ok |-> FALSE]}
         \cup {[ok |-> TRUE, ch |-> c, px |-> p] : c \in {1, 3}, p \in Grids(Levels)}

Concrete(im) == im # None /\ im.ops = <<>>

\* A library call whose pixel result is not computed: recorded on the image.
Applied(im, op) == [im EXCEPT !.ops = Append(@, op)]

IsFill(op) == op[1] \in {"rectangle", "circle"}

\* Filling a region with zero is idempotent and commutes with the other fills:
\* a fill already recorded since the last other operation changes nothing.
Painted(im, op) ==
    IF \E i \in 1..Len(im.ops) :
           im.ops[i] = op /\ \A j \in i..Len(im.ops) : IsFill(im.ops[j])
    THEN im
    ELSE Applied(im, op)

Min(a, b) == IF a < b THEN a ELSE b
Max(a, b) == IF a > b THEN a ELSE b

(* --------------------------- library calls ----------------------------- *)
\* cv.imread(path, cv.IMREAD_GRAYSCALE if grayscale else -1): None when the file
\* cannot be decoded; a 3-channel raster read unchanged keeps its channels, and
\* its colour samples are not the grid px.
imread(file, grayscale) ==
    IF ~file.ok THEN None
    ELSE IF grayscale \/ file.ch = 1 THEN Gray(file.px)
    ELSE [Gray(file.px) EXCEPT !.ch = file.ch, !.ops = << <<"color">> >>]

\* What a cv2 function raises when handed None instead of an array: the
\* binding's argument conversion fails with cv2.error or TypeError, by build.
NoneArgErrors == {"cv2.error", "TypeError"}

\* cv.resize(src, None, fx=ratio, fy=ratio, INTER_AREA) with ratio = STD_RES / h:
\* dsize is (round(w * ratio), round(h * ratio)).
Round(num, den) == (2 * num + den) \div (2 * den)
CvResizeRatio(im, num, den) ==
    [Applied(im, <<"resize">>) EXCEPT !.h = Round(im.h * num, den),
                                      !.w = Round(im.w * num, den)]

\* cv.resize(src, (cols, rows), INTER_AREA) on a non-empty source.
CvResizeTo(im, cols, rows) ==
    [Applied(im, <<"resize">>) EXCEPT !.h = rows, !.w = cols]

\* THRESH_BINARY_INV: the other binary flag of cv.threshold.
CvThresholdInv(im, thresh, maxval) ==
    IF Concrete(im)
    THEN [im EXCEPT !.px = [y \in DOMAIN im.px |-> [x \in DOMAIN im.px[y] |->
                                IF im.px[y][x] > thresh THEN 0 ELSE maxval]]]
    ELSE Applied(im, <<"threshold_inv", thresh, maxval>>)

\* The comparison taken as "at or above".
CvThresholdGE(im, thresh, maxval) ==
    IF Concrete(im)
    THEN [im EXCEPT !.px = [y \in DOMAIN im.px |-> [x \in DOMAIN im.px[y] |->
                                IF im.px[y][x] >= thresh THEN maxval ELSE 0]]]
    ELSE Applied(im, <<"threshold", thresh, maxval>>)

\* cv.threshold(src, thresh, maxval, cv.THRESH_BINARY):
\* dst(x, y) = maxval if src(x, y) > thresh, else 0.
CvThreshold(im, thresh, maxval) ==
    IF Concrete(im)
    THEN [im EXCEPT !.px = [y \in DOMAIN im.px |-> [x \in DOMAIN im.px[y] |->
                                IF im.px[y][x] > thresh THEN maxval ELSE 0]]]
    ELSE Applied(im, <<"threshold", thresh, maxval>>)

\* cv.rectangle(img, (x1, y1), (x2, y2), (0, 0, 0), thickness=cv.FILLED), in place:
\* every pixel of the image inside the rectangle spanned by the two corners,
\* both corners included, becomes 0.
InRect(x, y, x1, y1, x2, y2) ==
    /\ Min(x1, x2) <= x /\ x <= Max(x1, x2)
    /\ Min(y1, y2) <= y /\ y <= Max(y1, y2)

CvRectangle(im, x1, y1, x2, y2) ==
    IF Concrete(im)
    THEN [im EXCEPT !.px = [y \in DOMAIN im.px |-> [x \in DOMAIN im.px[y] |->
                                IF InRect(x, y, x1, y1, x2, y2) THEN 0 ELSE im.px[y][x]]]]
    ELSE Painted(im, <<"rectangle", x1, y1, x2, y2>>)

\* cv.boundingRect of a binary image: the tightest box around its non-zero
\* pixels, (0, 0, 0, 0) when there is none.
NonZeroCols(im) == {x \in 0..(im.w - 1) : \E y \in 0..(im.h - 1) : im.px[y][x] # 0}
NonZeroRows(im) == {y \in 0..(im.h - 1) : \E x \in 0..(im.w - 1) : im.px[y][x] # 0}
SetMin(S) == CHOOSE m \in S : \A n \in S : m <= n
SetMax(S) == CHOOSE m \in S : \A n \in S : m >= n
CvBoundingRect(im) ==
    IF NonZeroCols(im) = {} THEN [x |-> 0, y |-> 0, w |-> 0, h |-> 0]
    ELSE [x |-> SetMin(NonZeroCols(im)),
          y |-> SetMin(NonZeroRows(im)),
          w |-> SetMax(NonZeroCols(im)) - SetMin(NonZeroCols(im)) + 1,
          h |-> SetMax(NonZeroRows(im)) - SetMin(NonZeroRows(im)) + 1]

\* np.zeros((rows, cols), dtype=np.uint8)
NpZeros(rows, cols) ==
    [h |-> rows, w |-> cols, ch |-> 1,
     px |-> [y \in 0..(rows - 1) |-> [x \in 0..(cols - 1) |-> 0]], ops |-> <<>>]

\* The circles cv.HoughCircles can report for an image: None (here <<>>), or
\* circles (x, y, r) centred in the image with MIN_R <= r <= MAX_R that pass
\* through the image; an image smaller than MIN_R holds no such circle.
HoughOutcomes(im, minR, maxR) ==
    {<<>>} \cup
    { << <<x, y, r>> >> : <<x, y, r>> \in
        {c \in {im.w \div 2, (3 * im.w) \div 4} \X {im.h \div 4, im.h \div 2} \X {minR, maxR} :
            minR <= maxR /\ c[3] <= im.h + im.w} }

\* The keypoint lists SimpleBlobDetector.detect can report: none, or one blob.
BlobOutcomes(im) == {<<>>, << <<(3 * im.w) \div 4, im.h \div 4>> >>}

(* ------------------------- the module's functions ---------------------- *)
\* load_image(path, grayscale, equalize, resize), lines 84-107: the set of its
\* outcomes [exc, val]; exc = "none" when it returns val.
load_image(file, grayscale, equalize, resize) ==
    LET img_in == imread(file, grayscale) IN
    IF equalize /\ img_in = None
    THEN {[exc |-> e, val |-> None] : e \in NoneArgErrors}
    ELSE IF equalize /\ img_in.ch # 1
    THEN {[exc |-> "cv2.error", val |-> None]}
    ELSE LET eq == IF equalize THEN Applied(img_in, <<"equalizeHist">>) ELSE img_in IN
         IF ~resize THEN {[exc |-> "none", val |-> eq]}
         ELSE IF eq = None THEN {[exc |-> "AttributeError", val |-> None]}
         ELSE {[exc |-> "none", val |-> CvResizeRatio(eq, STD_RES, eq.h)]}

\* threshold(img), lines 110-113.
threshold(im) == CvThreshold(im, THRESH, MAXVAL)

\* The two filled rectangles of hough_circles (lines 128-139) and of
\* experiment_notch_detection (lines 312-317), painted in place.
MaskLeftColumnOnly(im) == CvRectangle(im, 0, 0, im.w \div 2, im.h)

MaskQuadrants(im) ==
    CvRectangle(CvRectangle(im, 0, 0, im.w \div 2, im.h),
                0, im.h, im.w, im.h \div 2)

\* hough_circles(img), lines 116-152, under given values of the globals DP, P1
\* and P2: the set of its outcomes [exc, img, val], img being the caller's image
\* after the call.  cv.HoughCircles rejects a parameter that is not positive,
\* after the masking has been done.
HoughCirclesWith(im, dp, p1, p2) ==
    LET masked == MaskQuadrants(im) IN
    IF dp <= 0 \/ MD <= 0 \/ p1 <= 0 \/ p2 <= 0
    THEN {[exc |-> "cv2.error", img |-> masked, val |-> <<>>]}
    ELSE {[exc |-> "none", img |-> masked, val |-> c] :
              c \in HoughOutcomes(masked, MIN_R, MAX_R)}

hough_circles(im) == HoughCirclesWith(im, DP, P1, P2)

\* draw_hough_circles(img, circles), lines 190-206.
draw_hough_circles(im, cs) ==
    IF cs # <<>>
    THEN [Applied(Applied(im, <<"cvtColor">>), <<"circles", Len(cs)>>) EXCEPT !.ch = 3]
    ELSE im

\* int(math.ceil(d / 2.0))
HalfCeil(d) == (d + 1) \div 2

\* int(math.floor(d / 2.0)), lines 179-180 and 369-370.
HalfFloor(d) == d \div 2

\* Lines 181-182 and 372-373: roi = img[y:y + h, x:x + w] assigned to the
\* canvas slice [half_dh:half_dh + h, half_dw:half_dw + w].  numpy clips a slice
\* to the array, and raises ValueError when the shapes then differ.
SliceLen(lo, len, size) == Max(0, Min(lo + len, size) - Min(lo, size))

CopyRoi(canvas, src, r, dw, dh) ==
    IF SliceLen(dh, r.h, canvas.h) # SliceLen(r.y, r.h, src.h)
       \/ SliceLen(dw, r.w, canvas.w) # SliceLen(r.x, r.w, src.w)
    THEN [exc |-> "ValueError", val |-> canvas]
    ELSE [exc |-> "none",
          val |-> [canvas EXCEPT !.px =
                     [y \in DOMAIN canvas.px |-> [x \in DOMAIN canvas.px[y] |->
                         IF /\ dh <= y /\ y < dh + r.h
                            /\ dw <= x /\ x < dw + r.w
                         THEN src.px[r.y + (y - dh)][r.x + (x - dw)]
                         ELSE canvas.px[y][x]]]]]

(* ------------------------------ the state ------------------------------ *)
WindowNames == {"Threshold Experiment", "Original Image",
                "Hough Circle Transform Experiment", "Canny Edge Detect Experiment",
                "Thresholded, Subtracted, Blob-Detected", "Resized Image"}

\* The files the interactive experiments are run on: undecodable, or a
\* single-channel raster of each shape (its content is resampled on loading).
SessionFiles == {f \in Files : ~f.ok \/ (f.ch = 1 /\ \A y \in DOMAIN f.px :
                                             \A x \in DOMAIN f.px[y] : f.px[y][x] = THRESH_INIT + 1)}

\* The positions a slider of range 0..max is moved to.
SliderPositions(default, max) == {0, default, max}

InitGlobals ==
    /\ STD_RES = STD_RES_INIT
    /\ THRESH = THRESH_INIT
    /\ LOW_THRESH = LOW_THRESH_INIT
    /\ MAX_THRESH = MAX_THRESH_INIT
    /\ KERNEL = KERNEL_INIT
    /\ DP = DP_INIT
    /\ MD = MD_INIT
    /\ P1 = P1_INIT
    /\ P2 = P2_INIT
    /\ MIN_R = MIN_R_INIT
    /\ MAX_R = MAX_R_INIT

InitLocals ==
    /\ path = None /\ img = None /\ img_thresh = None /\ rect = None
    /\ max_wh = None /\ half_dw = None /\ half_dh = None
    /\ img_expand = None /\ img_resize = None
    /\ circles = None /\ keypoints = None /\ edges = None

Init ==
    /\ InitGlobals
    /\ InitLocals
    /\ fn = "none" /\ pc = "start" /\ idx = 0 /\ attempted = {} /\ exc = "none"
    /\ ret = None
    /\ windows = [n \in WindowNames |-> "none"]
    /\ arg = None /\ cutoff = THRESH_INIT /\ once = None /\ twice = None

\* An exception leaves the running function and, nothing catching it, every
\* caller up to the interpreter.
Raise(e) == exc' = e /\ pc' = "aborted"

imshow(name, what) == windows' = [windows EXCEPT ![name] = what]

(* ----------------------- experiment_bounding_box ------------------------ *)
\* Line 362: img = load_image(path, resize=False)
ebb_load ==
    /\ pc = "ebb_load"
    /\ \E o \in load_image(path, TRUE, FALSE, FALSE) :
         /\ img' = o.val
         /\ IF o.exc = "none" THEN pc' = "ebb_thresh" /\ exc' = exc ELSE Raise(o.exc)
    /\ UNCHANGED <<globals, fn, idx, attempted, path, img_thresh, rect, max_wh,
                   half_dw, half_dh, img_expand, img_resize, circles, keypoints,
                   edges, ret, windows, harness>>

\* Lines 363-364: img_thresh = threshold(img); x, y, w, h = cv.boundingRect(img_thresh)
ebb_thresh ==
    /\ pc = "ebb_thresh"
    /\ IF img = None
       THEN /\ \E e \in NoneArgErrors : Raise(e)
            /\ UNCHANGED <<img_thresh, rect>>
       ELSE /\ img_thresh' = threshold(img)
            /\ rect' = CvBoundingRect(img_thresh')
            /\ pc' = "ebb_canvas" /\ exc' = exc
    /\ UNCHANGED <<globals, fn, idx, attempted, path, img, max_wh,
                   half_dw, half_dh, img_expand, img_resize, circles, keypoints,
                   edges, ret, windows, harness>>

\* Lines 366-371: the square canvas and the offsets of the region in it.
ebb_canvas ==
    /\ pc = "ebb_canvas"
    /\ max_wh' = Max(rect.w, rect.h)
    /\ half_dw' = HalfFloor(max_wh' - rect.w)
    /\ half_dh' = HalfFloor(max_wh' - rect.h)
    /\ img_expand' = NpZeros(max_wh', max_wh')
    /\ pc' = "ebb_copy"
    /\ UNCHANGED <<globals, fn, idx, attempted, exc, path, img, img_thresh, rect,
                   img_resize, circles, keypoints, edges, ret, windows, harness>>

\* Lines 372-373: the region of interest is copied into the canvas.
ebb_copy ==
    /\ pc = "ebb_copy"
    /\ LET o == CopyRoi(img_expand, img, rect, half_dw, half_dh) IN
         /\ img_expand' = o.val
         /\ IF o.exc = "none" THEN pc' = "ebb_resize" /\ exc' = exc ELSE Raise(o.exc)
    /\ UNCHANGED <<globals, fn, idx, attempted, path, img, img_thresh, rect, max_wh,
                   half_dw, half_dh, img_resize, circles, keypoints, edges, ret,
                   windows, harness>>

\* Lines 375-377: cv.resize to (STD_RES, STD_RES); cv.resize raises cv2.error on
\* an empty source.
ebb_resize ==
    /\ pc = "ebb_resize"
    /\ IF img_expand.h = 0 \/ img_expand.w = 0
       THEN Raise("cv2.error") /\ UNCHANGED img_resize
       ELSE /\ img_resize' = CvResizeTo(img_expand, STD_RES, STD_RES)
            /\ pc' = "ebb_show" /\ exc' = exc
    /\ UNCHANGED <<globals, fn, idx, attempted, path, img, img_thresh, rect, max_wh,
                   half_dw, half_dh, img_expand, circles, keypoints, edges, ret,
                   windows, harness>>

\* Lines 379-381: the resized image is shown.
ebb_show ==
    /\ pc = "ebb_show"
    /\ imshow("Resized Image", "img_resize")
    /\ pc' = "ebb_waitKey"
    /\ UNCHANGED <<globals, fn, idx, attempted, exc, locals, ret, harness>>

\* Line 383: cv.waitKey(0) returns on a key press and the function returns to
\* the loop of the driver; its locals are gone.
ebb_waitKey ==
    /\ pc = "ebb_waitKey"
    /\ pc' = "main_for"
    /\ path' = None /\ img' = None /\ img_thresh' = None /\ rect' = None
    /\ max_wh' = None /\ half_dw' = None /\ half_dh' = None
    /\ img_expand' = None /\ img_resize' = None
    /\ UNCHANGED <<globals, fn, idx, attempted, exc, circles, keypoints, edges,
                   ret, windows, harness>>

(* ------------------------------ __main__ -------------------------------- *)
\* Lines 386-388: the script is run.
main ==
    /\ pc = "start"
    /\ fn' = "main" /\ pc' = "main_for"
    /\ UNCHANGED <<globals, idx, attempted, exc, locals, ret, windows, harness>>

\* Lines 393-399: the next entry of os.listdir(dir_path), whatever the file
\* holds, is handed to experiment_bounding_box; the loop ends after the last.
main_for ==
    /\ pc = "main_for"
    /\ IF idx < NFiles
       THEN /\ \E f \in Files : path' = f
            /\ idx' = idx + 1
            /\ attempted' = attempted \cup {idx + 1}
            /\ pc' = "ebb_load"
       ELSE /\ pc' = "exit"
            /\ UNCHANGED <<idx, attempted, path>>
    /\ UNCHANGED <<globals, fn, exc, img, img_thresh, rect, max_wh, half_dw, half_dh,
                   img_expand, img_resize, circles, keypoints, edges, ret, windows,
                   harness>>

(* ------------------------------ bb_resize ------------------------------- *)
\* Line 155: bb_resize(img) is called on a grayscale image.
bb_call ==
    /\ pc = "start"
    /\ \E im \in Images : img' = im /\ arg' = im
    /\ fn' = "bb_resize" /\ pc' = "bb_thresh"
    /\ UNCHANGED <<globals, idx, attempted, exc, path, img_thresh, rect, max_wh,
                   half_dw, half_dh, img_expand, img_resize, circles, keypoints,
                   edges, ret, windows, cutoff, once, twice>>

\* Lines 168-169.
bb_thresh ==
    /\ pc = "bb_thresh"
    /\ img_thresh' = threshold(img)
    /\ rect' = CvBoundingRect(img_thresh')
    /\ pc' = "bb_canvas"
    /\ UNCHANGED <<globals, fn, idx, attempted, exc, path, img, max_wh, half_dw,
                   half_dh, img_expand, img_resize, circles, keypoints, edges, ret,
                   windows, harness>>

\* Lines 171-180.
bb_canvas ==
    /\ pc = "bb_canvas"
    /\ max_wh' = Max(rect.w, rect.h)
    /\ img_expand' = NpZeros(max_wh', max_wh')
    /\ half_dw' = HalfFloor(max_wh' - rect.w)
    /\ half_dh' = HalfFloor(max_wh' - rect.h)
    /\ pc' = "bb_copy"
    /\ UNCHANGED <<globals, fn, idx, attempted, exc, path, img, img_thresh, rect,
                   img_resize, circles, keypoints, edges, ret, windows, harness>>

\* Lines 181-182.
bb_copy ==
    /\ pc = "bb_copy"
    /\ LET o == CopyRoi(img_expand, img, rect, half_dw, half_dh) IN
         /\ img_expand' = o.val
         /\ IF o.exc = "none" THEN pc' = "bb_resize" /\ exc' = exc ELSE Raise(o.exc)
    /\ UNCHANGED <<globals, fn, idx, attempted, path, img, img_thresh, rect, max_wh,
                   half_dw, half_dh, img_resize, circles, keypoints, edges, ret,
                   windows, harness>>

\* Lines 184-188: the canvas is resized into the local img_resize and the
\* function ends without a return statement: its value is None.
bb_resize ==
    /\ pc = "bb_resize"
    /\ IF img_expand.h = 0 \/ img_expand.w = 0
       THEN Raise("cv2.error") /\ UNCHANGED <<img_resize, ret>>
       ELSE /\ img_resize' = CvResizeTo(img_expand, STD_RES, STD_RES)
            /\ ret' = None
            /\ pc' = "returned" /\ exc' = exc
    /\ UNCHANGED <<globals, fn, idx, attempted, path, img, img_thresh, rect, max_wh,
                   half_dw, half_dh, img_expand, circles, keypoints, edges,
                   windows, harness>>

(* ------------------------ direct calls of functions --------------------- *)
\* Lines 84-107: load_image called with any flags on any file.
load_image_call ==
    /\ pc = "start"
    /\ \E f \in Files, grayscale \in BOOLEAN, equalize \in BOOLEAN, resize \in BOOLEAN :
         \E o \in load_image(f, grayscale, equalize, resize) :
            /\ path' = f
            /\ ret' = o.val
            /\ IF o.exc = "none" THEN pc' = "returned" /\ exc' = exc ELSE Raise(o.exc)
    /\ fn' = "load_image"
    /\ UNCHANGED <<globals, idx, attempted, img, img_thresh, rect, max_wh, half_dw,
                   half_dh, img_expand, img_resize, circles, keypoints, edges,
                   windows, harness>>

\* Lines 116-152: hough_circles called on a grayscale image; img is the
\* caller's image, masked in place, ret the list returned.
hough_circles_call ==
    /\ pc = "start"
    /\ \E im \in Images : \E o \in hough_circles(im) :
         /\ arg' = im
         /\ img' = o.img
         /\ IF o.exc = "none"
            THEN ret' = o.val /\ pc' = "returned" /\ exc' = exc
            ELSE ret' = ret /\ Raise(o.exc)
    /\ fn' = "hough_circles"
    /\ UNCHANGED <<globals, idx, attempted, path, img_thresh, rect, max_wh, half_dw,
                   half_dh, img_expand, img_resize, circles, keypoints, edges,
                   windows, cutoff, once, twice>>

(* -------------------------- experiment_threshold ------------------------ *)
\* Line 214: img = load_image(path)
et_load ==
    /\ pc = "start"
    /\ \E f \in SessionFiles : \E o \in load_image(f, TRUE, FALSE, TRUE) :
         /\ path' = f
         /\ img' = o.val
         /\ IF o.exc = "none" THEN pc' = "et_setup" /\ exc' = exc ELSE Raise(o.exc)
    /\ fn' = "experiment_threshold"
    /\ UNCHANGED <<globals, idx, attempted, img_thresh, rect, max_wh, half_dw,
                   half_dh, img_expand, img_resize, circles, keypoints, edges, ret,
                   windows, harness>>

\* Lines 215-233: the thresholded image, the windows and the slider; then
\* cv.waitKey(0) runs the event loop.
et_setup ==
    /\ pc = "et_setup"
    /\ img_thresh' = CvThreshold(img, THRESH, MAXVAL)
    /\ windows' = [windows EXCEPT !["Threshold Experiment"] = "thresh_img",
                                  !["Original Image"] = "img"]
    /\ pc' = "et_waitKey"
    /\ UNCHANGED <<globals, fn, idx, attempted, exc, path, img, rect, max_wh,
                   half_dw, half_dh, img_expand, img_resize, circles, keypoints,
                   edges, ret, harness>>

\* Lines 224-227: the slider is moved to pos.
thresh_callback(pos) ==
    /\ pc = "et_waitKey"
    /\ img_thresh' = CvThreshold(img, pos, MAXVAL)
    /\ imshow("Threshold Experiment", "thresh_img")
    /\ UNCHANGED <<globals, control, path, img, rect, max_wh, half_dw, half_dh,
                   img_expand, img_resize, circles, keypoints, edges, ret, harness>>

(* ---------------------------- experiment_hough -------------------------- *)
\* Line 243: img = load_image(path)
eh_load ==
    /\ pc = "start"
    /\ \E f \in SessionFiles : \E o \in load_image(f, TRUE, FALSE, TRUE) :
         /\ path' = f
         /\ img' = o.val
         /\ IF o.exc = "none" THEN pc' = "eh_setup" /\ exc' = exc ELSE Raise(o.exc)
    /\ fn' = "experiment_hough"
    /\ UNCHANGED <<globals, idx, attempted, img_thresh, rect, max_wh, half_dw,
                   half_dh, img_expand, img_resize, circles, keypoints, edges, ret,
                   windows, harness>>

\* Lines 246-273: the window, the three sliders, the first detection drawn;
\* then cv.waitKey(0) runs the event loop.
eh_setup ==
    /\ pc = "eh_setup"
    /\ \E o \in hough_circles(img) :
         /\ img' = o.img
         /\ IF o.exc = "none"
            THEN /\ circles' = o.val
                 /\ imshow("Hough Circle Transform Experiment",
                           IF o.val # <<>> THEN "draw_hough_circles" ELSE "img")
                 /\ pc' = "eh_waitKey" /\ exc' = exc
            ELSE Raise(o.exc) /\ UNCHANGED <<circles, windows>>
    /\ UNCHANGED <<globals, fn, idx, attempted, path, img_thresh, rect, max_wh,
                   half_dw, half_dh, img_expand, img_resize, keypoints, edges, ret,
                   harness>>

\* What the three slider callbacks share (lines 253, 259, 265), under the
\* values the globals have once the callback has assigned its own: the
\* detection is run again on img and drawn.  An exception raised in a callback
\* is reported by the GUI binding and the event loop goes on.
Redetect(dp, p1, p2) ==
    \E o \in HoughCirclesWith(img, dp, p1, p2) :
       /\ img' = o.img
       /\ IF o.exc = "none"
          THEN /\ circles' = o.val
               /\ imshow("Hough Circle Transform Experiment",
                         IF o.val # <<>> THEN "draw_hough_circles" ELSE "img")
          ELSE UNCHANGED <<circles, windows>>

\* Lines 250-254.
dp_callback(pos) ==
    /\ pc = "eh_waitKey"
    /\ DP' = pos
    /\ UNCHANGED <<STD_RES, THRESH, LOW_THRESH, MAX_THRESH, KERNEL, MD, P1, P2, MIN_R, MAX_R>>
    /\ Redetect(pos, P1, P2)
    /\ UNCHANGED <<control, path, img_thresh, rect, max_wh, half_dw, half_dh,
                   img_expand, img_resize, keypoints, edges, ret, harness>>

\* Lines 256-260.
p1_callback(pos) ==
    /\ pc = "eh_waitKey"
    /\ P1' = pos
    /\ UNCHANGED <<STD_RES, THRESH, LOW_THRESH, MAX_THRESH, KERNEL, DP, MD, P2, MIN_R, MAX_R>>
    /\ Redetect(DP, pos, P2)
    /\ UNCHANGED <<control, path, img_thresh, rect, max_wh, half_dw, half_dh,
                   img_expand, img_resize, keypoints, edges, ret, harness>>

\* The callback of a slider bound to the wrong global: it writes MIN_R.
p2_callback_writes_min_r(pos) ==
    /\ pc = "eh_waitKey"
    /\ MIN_R' = pos
    /\ UNCHANGED <<STD_RES, THRESH, LOW_THRESH, MAX_THRESH, KERNEL, DP, MD, P1, P2, MAX_R>>
    /\ Redetect(DP, P1, P2)
    /\ UNCHANGED <<control, path, img_thresh, rect, max_wh, half_dw, half_dh,
                   img_expand, img_resize, keypoints, edges, ret, harness>>

\* Lines 262-266.
p2_callback(pos) ==
    /\ pc = "eh_waitKey"
    /\ P2' = pos
    /\ UNCHANGED <<STD_RES, THRESH, LOW_THRESH, MAX_THRESH, KERNEL, DP, MD, P1, MIN_R, MAX_R>>
    /\ Redetect(DP, P1, pos)
    /\ UNCHANGED <<control, path, img_thresh, rect, max_wh, half_dw, half_dh,
                   img_expand, img_resize, keypoints, edges, ret, harness>>

(* ------------------------- experiment_edge_detect ----------------------- *)
\* cv.Canny(img, low, high, apertureSize=kernel)
CvCanny(im, low, high, kernel) == Applied(im, <<"Canny", low, high, kernel>>)

\* Line 277: img = load_image(path)
ee_load ==
    /\ pc = "start"
    /\ \E f \in SessionFiles : \E o \in load_image(f, TRUE, FALSE, TRUE) :
         /\ path' = f
         /\ img' = o.val
         /\ IF o.exc = "none" THEN pc' = "ee_setup" /\ exc' = exc ELSE Raise(o.exc)
    /\ fn' = "experiment_edge_detect"
    /\ UNCHANGED <<globals, idx, attempted, img_thresh, rect, max_wh, half_dw,
                   half_dh, img_expand, img_resize, circles, keypoints, edges, ret,
                   windows, harness>>

\* Lines 278-295: img is replaced by its thresholding, the edges are computed
\* and shown, the slider is created; then cv.waitKey(0) runs the event loop.
ee_setup ==
    /\ pc = "ee_setup"
    /\ img' = threshold(img)
    /\ edges' = CvCanny(img', LOW_THRESH, MAX_THRESH, KERNEL)
    /\ imshow("Canny Edge Detect Experiment", "edges")
    /\ pc' = "ee_waitKey"
    /\ UNCHANGED <<globals, fn, idx, attempted, exc, path, img_thresh, rect, max_wh,
                   half_dw, half_dh, img_expand, img_resize, circles, keypoints,
                   ret, harness>>

\* Lines 286-291: the slider is moved to pos.  The edges assigned in the
\* callback are a local of the callback; the function's own are left alone.
low_thresh_callback(pos) ==
    /\ pc = "ee_waitKey"
    /\ LOW_THRESH' = pos
    /\ UNCHANGED <<STD_RES, THRESH, MAX_THRESH, KERNEL, DP, MD, P1, P2, MIN_R, MAX_R>>
    /\ imshow("Canny Edge Detect Experiment", "edges (callback)")
    /\ UNCHANGED <<control, locals, ret, harness>>

(* ----------------------- experiment_notch_detection --------------------- *)
\* Line 301: img = load_image(path)
en_load ==
    /\ pc = "start"
    /\ \E f \in SessionFiles : \E o \in load_image(f, TRUE, FALSE, TRUE) :
         /\ path' = f
         /\ img' = o.val
         /\ IF o.exc = "none" THEN pc' = "en_detect" /\ exc' = exc ELSE Raise(o.exc)
    /\ fn' = "experiment_notch_detection"
    /\ UNCHANGED <<globals, idx, attempted, img_thresh, rect, max_wh, half_dw,
                   half_dh, img_expand, img_resize, circles, keypoints, edges, ret,
                   windows, harness>>

\* Lines 302-303: img_thresh = threshold(img); circles = hough_circles(img)
en_detect ==
    /\ pc = "en_detect"
    /\ img_thresh' = threshold(img)
    /\ \E o \in hough_circles(img) :
         /\ img' = o.img
         /\ IF o.exc = "none"
            THEN circles' = o.val /\ pc' = "en_paint" /\ exc' = exc
            ELSE circles' = circles /\ Raise(o.exc)
    /\ UNCHANGED <<globals, fn, idx, attempted, path, rect, max_wh, half_dw, half_dh,
                   img_expand, img_resize, keypoints, edges, ret, windows, harness>>

\* Lines 305-308: x, y, r = circles[0], with no test of the list before it: an
\* empty list raises IndexError.  Otherwise the disk is painted out.
en_paint ==
    /\ pc = "en_paint"
    /\ IF circles = <<>>
       THEN Raise("IndexError") /\ UNCHANGED img_thresh
       ELSE /\ img_thresh' = Painted(img_thresh,
                                     <<"circle", circles[1][1], circles[1][2], circles[1][3]>>)
            /\ pc' = "en_quadrants" /\ exc' = exc
    /\ UNCHANGED <<globals, fn, idx, attempted, path, img, rect, max_wh, half_dw,
                   half_dh, img_expand, img_resize, circles, keypoints, edges, ret,
                   windows, harness>>

\* Lines 310-321: the quadrants are painted out, then erosion and dilation.
en_quadrants ==
    /\ pc = "en_quadrants"
    /\ img_thresh' = Applied(Applied(MaskQuadrants(img_thresh), <<"erode", 3>>),
                             <<"dilate", 3>>)
    /\ pc' = "en_blobs"
    /\ UNCHANGED <<globals, fn, idx, attempted, exc, path, img, rect, max_wh, half_dw,
                   half_dh, img_expand, img_resize, circles, keypoints, edges, ret,
                   windows, harness>>

\* Lines 323-345: blob detection, the keypoints drawn on the image.
en_blobs ==
    /\ pc = "en_blobs"
    /\ \E k \in BlobOutcomes(img_thresh) :
         /\ keypoints' = k
         /\ img_thresh' = [Applied(img_thresh, <<"drawKeypoints", Len(k)>>) EXCEPT !.ch = 3]
    /\ pc' = "en_show"
    /\ UNCHANGED <<globals, fn, idx, attempted, exc, path, img, rect, max_wh, half_dw,
                   half_dh, img_expand, img_resize, circles, edges, ret, windows,
                   harness>>

\* Lines 347-354: both windows are shown; then cv.waitKey(0).
en_show ==
    /\ pc = "en_show"
    /\ windows' = [windows EXCEPT !["Original Image"] = "img",
                                  !["Thresholded, Subtracted, Blob-Detected"] = "img_thresh"]
    /\ pc' = "en_waitKey"
    /\ UNCHANGED <<globals, fn, idx, attempted, exc, locals, ret, harness>>

(* ------------------------------- key press ------------------------------ *)
\* Lines 233, 273, 295, 354: cv.waitKey(0) returns on a key press and the
\* experiment returns None.
waitKey_return ==
    /\ pc \in {"et_waitKey", "eh_waitKey", "ee_waitKey", "en_waitKey"}
    /\ ret' = None
    /\ pc' = "returned"
    /\ UNCHANGED <<globals, fn, idx, attempted, exc, locals, windows, harness>>

(* --------------------- the thresholder applied twice -------------------- *)
\* The images and cutoffs the thresholder is applied to: every intensity and
\* every cutoff of the 8-bit range on one pixel, and rows of probe levels.
MaxProbeW == 2
ProbeImages ==
    {Gray(px) : px \in Grid(1, 1, 0..255)}
    \cup {Gray(px) : px \in UNION {Grid(1, w, ProbeLevels) : w \in 2..MaxProbeW}}

InitThreshold ==
    /\ InitGlobals
    /\ InitLocals
    /\ fn = "threshold" /\ pc = "start" /\ idx = 0 /\ attempted = {} /\ exc = "none"
    /\ ret = None
    /\ windows = [n \in WindowNames |-> "none"]
    /\ arg \in ProbeImages /\ cutoff \in 0..255 /\ once = None /\ twice = None

\* cv.threshold(img, cutoff, 255, cv.THRESH_BINARY), lines 112 and 225.
threshold_once ==
    /\ pc = "start" /\ fn = "threshold"
    /\ once' = CvThreshold(arg, cutoff, MAXVAL)
    /\ pc' = "once"
    /\ UNCHANGED <<globals, fn, idx, attempted, exc, locals, ret, windows, arg,
                   cutoff, twice>>

\* The same call on its own result.
threshold_twice ==
    /\ pc = "once"
    /\ twice' = CvThreshold(once, cutoff, MAXVAL)
    /\ pc' = "twice"
    /\ UNCHANGED <<globals, fn, idx, attempted, exc, locals, ret, windows, arg,
                   cutoff, once>>

(* --------------------------- specifications ----------------------------- *)
Next ==
    \/ main \/ main_for
    \/ ebb_load \/ ebb_thresh \/ ebb_canvas \/ ebb_copy \/ ebb_resize
    \/ ebb_show \/ ebb_waitKey
    \/ bb_call \/ bb_thresh \/ bb_canvas \/ bb_copy \/ bb_resize
    \/ load_image_call \/ hough_circles_call
    \/ et_load \/ et_setup
    \/ (\E pos \in SliderPositions(THRESH_INIT, 255) : thresh_callback(pos))
    \/ eh_load \/ eh_setup
    \/ (\E pos \in SliderPositions(DP_INIT, 10) : dp_callback(pos))
    \/ (\E pos \in SliderPositions(P1_INIT, 255) : p1_callback(pos))
    \/ (\E pos \in SliderPositions(P2_INIT, 255) : p2_callback(pos))
    \/ ee_load \/ ee_setup
    \/ (\E pos \in SliderPositions(LOW_THRESH_INIT, 255) : low_thresh_callback(pos))
    \/ en_load \/ en_detect \/ en_paint \/ en_quadrants \/ en_blobs \/ en_show
    \/ waitKey_return

Spec == Init /\ [][Next]_vars

NextThreshold == threshold_once \/ threshold_twice

SpecThreshold == InitThreshold /\ [][NextThreshold]_vars

(* ------------------------------ properties ----------------------------- *)
\* The positions at which img_thresh holds threshold(img) of the image img of
\* the normalizer, and img is that image still.
Thresholded ==
    pc \in {"ebb_canvas", "ebb_copy", "ebb_resize", "ebb_show", "ebb_waitKey",
            "bb_canvas", "bb_copy", "bb_resize"}
    \/ (fn = "bb_resize" /\ pc = "returned")

\* The positions at which the canvas has been allocated and the offsets computed.
CanvasAllocated == Thresholded /\ pc \notin {"ebb_canvas", "bb_canvas"}

\* The positions at which the region of interest has been copied.
RoiCopied == CanvasAllocated /\ pc \notin {"ebb_copy", "bb_copy"}

\* C1 as stated: threshold(img) is a binary image of the shape of img in which
\* each pixel whose input intensity is at or above the cutoff (>= THRESH) is 255
\* and every other pixel is 0.
C1_AtOrAboveCutoffIs255 ==
    Thresholded =>
        /\ img_thresh.h = img.h /\ img_thresh.w = img.w
        /\ \A y \in 0..(img.h - 1) : \A x \in 0..(img.w - 1) :
             img_thresh.px[y][x] = IF img.px[y][x] >= THRESH THEN 255 ELSE 0

\* C1 as amended: threshold(img) is a binary image of the shape of img in which
\* each pixel whose input intensity is strictly above the cutoff (> THRESH) is
\* 255 and every other pixel, one equal to the cutoff included, is 0.
C1_StrictlyAboveCutoffIs255 ==
    Thresholded =>
        /\ img_thresh.h = img.h /\ img_thresh.w = img.w
        /\ \A y \in 0..(img.h - 1) : \A x \in 0..(img.w - 1) :
             img_thresh.px[y][x] = IF img.px[y][x] > THRESH THEN 255 ELSE 0

\* An image with a pixel at the cutoff and a pixel above it has been thresholded.
C1_Witness ==
    /\ Thresholded
    /\ \E y \in 0..(img.h - 1) : \E x \in 0..(img.w - 1) : img.px[y][x] = THRESH
    /\ \E y \in 0..(img.h - 1) : \E x \in 0..(img.w - 1) : img.px[y][x] > THRESH

\* C2: when the circle detector returned an empty list, notch detection fails
\* with NoCircleDetectedError raised by an emptiness check, and never indexes
\* the first element of the list (which raises IndexError).
C2_EmptyCirclesRaiseNoCircleDetected ==
    (fn = "experiment_notch_detection" /\ pc \notin {"start", "en_detect"} /\ img # None
        /\ circles = <<>>)
    => (pc = "en_paint" \/ (pc = "aborted" /\ exc = "NoCircleDetectedError"))

\* C3: the canvas of the normalizer is square with side max(w, h) of the
\* bounding box; the region is copied at left offset floor((side - w) / 2) and
\* top offset floor((side - h) / 2), the rest of the canvas being background;
\* the padding after the region is the padding before it, or one pixel more.
C3_SquareCanvasFloorOffsets ==
    /\ CanvasAllocated =>
         LET side == IF rect.w > rect.h THEN rect.w ELSE rect.h IN
         /\ max_wh = side
         /\ img_expand.h = side /\ img_expand.w = side
         /\ half_dw = (side - rect.w) \div 2
         /\ half_dh = (side - rect.h) \div 2
         /\ (side - rect.w - half_dw) - half_dw \in {0, 1}
         /\ (side - rect.h - half_dh) - half_dh \in {0, 1}
    /\ RoiCopied =>
         LET side == IF rect.w > rect.h THEN rect.w ELSE rect.h
             left == (side - rect.w) \div 2
             top == (side - rect.h) \div 2
         IN \A y \in 0..(side - 1) : \A x \in 0..(side - 1) :
              img_expand.px[y][x] =
                 IF /\ left <= x /\ x < left + rect.w
                    /\ top <= y /\ y < top + rect.h
                 THEN img.px[rect.y + (y - top)][rect.x + (x - left)]
                 ELSE 0

\* A region has been copied into a canvas one pixel higher than the region: the
\* odd difference, with the extra row of padding below.
C3_Witness ==
    /\ RoiCopied
    /\ max_wh - rect.h = 1
    /\ half_dh = 0
    /\ \A x \in 0..(max_wh - 1) : img_expand.px[max_wh - 1][x] = 0
    /\ \E x \in 0..(max_wh - 1) : img_expand.px[0][x] # 0

\* C4: bb_resize(img) returns a single-channel image of STD_RES x STD_RES.
C4_BbResizeReturnsStdResImage ==
    (fn = "bb_resize" /\ pc = "returned")
    => (ret # None /\ ret.h = STD_RES /\ ret.w = STD_RES /\ ret.ch = 1)

\* C5: on a bounding box of zero width or height the normalizer fails with
\* DegenerateBoundingBoxError before it allocates a canvas: no canvas of size
\* 0 x 0 is ever allocated or handed to the resize step.
C5_DegenerateBoxRaisesBeforeCanvas ==
    /\ CanvasAllocated => (img_expand.h > 0 /\ img_expand.w > 0)
    /\ (fn \in {"main", "bb_resize"} /\ pc = "aborted" /\ rect # None
          /\ (rect.w = 0 \/ rect.h = 0))
       => exc = "DegenerateBoundingBoxError"

\* C6: when the file cannot be decoded load_image fails with LoadError whatever
\* its flags, it never returns None, and no later stage runs on a null image.
C6_DecodeFailureRaisesLoadError ==
    /\ (fn = "load_image" /\ pc \in {"returned", "aborted"} /\ ~path.ok)
       => (pc = "aborted" /\ exc = "LoadError")
    /\ (fn = "load_image" /\ pc = "returned") => ret # None
    /\ pc \in {"ebb_thresh", "et_setup", "eh_setup", "ee_setup", "en_detect"} => img # None

\* C7: the batch driver ends only when every entry of the directory has been
\* attempted: a failure on one image does not end it.
C7_EveryImageAttempted ==
    (fn = "main" /\ pc \in {"exit", "aborted"}) => attempted = 1..NFiles

\* C8: thresholding the thresholded image with the same cutoff gives the
\* thresholded image again, for every image and every cutoff in 0..255.
C8_ThresholdIdempotent ==
    pc = "twice" => twice = once

\* The thresholder has been applied twice to an image it changes, with a pixel
\* above the cutoff.
C8_Witness ==
    /\ pc = "twice"
    /\ once # arg
    /\ \E x \in 0..(arg.w - 1) : arg.px[0][x] > cutoff /\ once.px[0][x] = MAXVAL

\* C9: in every state of an experiment session, whatever sliders were moved,
\* 0 < MIN_R <= MAX_R and STD_RES is the positive resolution it was set to;
\* every image the loader resized is STD_RES high.
C9_RadiusBoundsAndResolution ==
    /\ 0 < MIN_R /\ MIN_R <= MAX_R
    /\ STD_RES = STD_RES_INIT /\ STD_RES > 0
    /\ pc \in {"et_setup", "et_waitKey", "eh_setup", "eh_waitKey", "ee_setup",
               "ee_waitKey", "en_detect", "en_paint", "en_quadrants", "en_blobs",
               "en_show", "en_waitKey"} => img.h = STD_RES

\* The three sliders of the Hough experiment have all been moved.
C9_Witness ==
    /\ pc = "eh_waitKey"
    /\ DP # DP_INIT /\ P1 # P1_INIT /\ P2 # P2_INIT

\* C10 as stated: after hough_circles(img) the caller's image is zero in the
\* left half (x < width / 2; the bottom-left quadrant lies in it) and unchanged
\* everywhere else.
C10_MaskIsLeftHalf ==
    (fn = "hough_circles" /\ pc = "returned") =>
        \A y \in 0..(arg.h - 1) : \A x \in 0..(arg.w - 1) :
            img.px[y][x] = IF 2 * x < arg.w THEN 0 ELSE arg.px[y][x]

HasOp(im, op) == \E i \in 1..Len(im.ops) : im.ops[i] = op

\* C10 as amended: after hough_circles(img) the caller's image is zero in the
\* columns x <= floor(width / 2) and in the rows y >= floor(height / 2), and
\* unchanged in the rest (x > floor(width / 2) and y < floor(height / 2)); the
\* image resized by the loader carries the same two fills after the call.
C10_MaskKeepsTopRightOnly ==
    /\ (fn = "hough_circles" /\ pc = "returned") =>
         /\ img.h = arg.h /\ img.w = arg.w
         /\ \A y \in 0..(arg.h - 1) : \A x \in 0..(arg.w - 1) :
              img.px[y][x] = IF x <= arg.w \div 2 \/ y >= arg.h \div 2
                             THEN 0 ELSE arg.px[y][x]
    /\ pc \in {"eh_waitKey", "en_paint", "en_quadrants", "en_blobs", "en_show",
               "en_waitKey"} =>
         /\ HasOp(img, <<"rectangle", 0, 0, img.w \div 2, img.h>>)
         /\ HasOp(img, <<"rectangle", 0, img.h, img.w, img.h \div 2>>)

\* hough_circles has returned on an image of which it kept a pixel of the top
\* right and zeroed a pixel of the bottom-right quadrant.
C10_Witness ==
    /\ fn = "hough_circles" /\ pc = "returned"
    /\ \E y \in 0..(arg.h - 1) : \E x \in 0..(arg.w - 1) :
         x > arg.w \div 2 /\ y < arg.h \div 2 /\ img.px[y][x] = arg.px[y][x]
                          /\ img.px[y][x] # 0
    /\ \E y \in 0..(arg.h - 1) : \E x \in 0..(arg.w - 1) :
         x > arg.w \div 2 /\ y >= arg.h \div 2 /\ arg.px[y][x] # 0 /\ img.px[y][x] = 0

====
